---------------------------- MODULE Spec2Model ----------------------------
(***************************************************************************)
(* A model of solartime.py (class SolarTime): the stored solar depression, *)
(* its setter, and the six query methods with the numerical pipeline they  *)
(* share.                                                                  *)
(*                                                                         *)
(* Python floats are modelled as fixed-point integers:                     *)
(*   - a plain real (degrees, radians, minutes, a sine) x is the integer   *)
(*     x * Scale;                                                          *)
(*   - a Julian century t is the integer t * JScale;                       *)
(*   - a Julian day jd is the integer jd * DScale.                         *)
(* Products and quotients are rounded to the nearest unit.                 *)
(***************************************************************************)
EXTENDS Integers, Sequences, FiniteSets, TLC

(***************************************************************************)
(* Fixed-point arithmetic.  A value used more than once is passed as an    *)
(* operator parameter, so that it is computed once.                        *)
(***************************************************************************)
Scale == 10^4

JScale == 10^7

DScale == 2 * 10^2

MaxInt == 2 * (2^30 - 1) + 1

Abs(x) == IF x < 0 THEN -x ELSE x

Sign(x) == IF x < 0 THEN -1 ELSE 1

Min(a, b) == IF a < b THEN a ELSE b

LongCarry(q, v, c) == <<q + v \div c, v % c>>

LongStep(p, r, digit, c) == LongCarry(64 * p[1], 64 * p[2] + digit * r, c)

\* <<quotient, remainder>> of r * b by c, for 0 <= r < c, b >= 0 and c < 2^24,
\* taking b sixty-four at a time so that no intermediate exceeds MaxInt.
RECURSIVE LongQR(_, _, _)
LongQR(r, b, c) ==
    IF b = 0 THEN <<0, 0>> ELSE LongStep(LongQR(r, b \div 64, c), r, b % 64, c)

RoundQR(qr, c) == qr[1] + (IF 2 * qr[2] >= c THEN 1 ELSE 0)

\* x * y / c rounded to the nearest integer, for x, y >= 0 and c > 0
MulDivPos(x, y, c) ==
    IF y = 0 \/ x <= (MaxInt - c) \div y
    THEN (x * y + c \div 2) \div c
    ELSE (x \div c) * y + RoundQR(LongQR(x % c, y, c), c)

\* a * b / c rounded to the nearest integer, half away from zero (c > 0)
MulDiv(a, b, c) == Sign(a) * Sign(b) * MulDivPos(Abs(a), Abs(b), c)

\* float * float and float / float on plain reals
FMul(a, b) == MulDiv(a, b, Scale)

FDiv(a, b) == Sign(b) * MulDiv(a, Scale, Abs(b))

Square(a) == FMul(a, a)

\* juliancentury * float, giving a plain real
JMul(t, a) == MulDiv(t, a, JScale)

\* int(x / unit): truncation toward zero
int(x, unit) == IF x >= 0 THEN x \div unit ELSE -((-x) \div unit)

(***************************************************************************)
(* math: sin, cos, tan, asin, acos, radians, degrees.  The sine is read    *)
(* from a table of sin(k * 0.02) and interpolated linearly; its inverse    *)
(* inverts the same piecewise-linear curve.                                *)
(***************************************************************************)
Pi == 31416

HalfPi == Pi \div 2

TwoPi == 2 * Pi

SinStep == 2 * 10^2

SinTab ==
    <<    0,   200,   400,   600,   799,   998,  1197,  1395,  1593,  1790,
       1987,  2182,  2377,  2571,  2764,  2955,  3146,  3335,  3523,  3709,
       3894,  4078,  4259,  4439,  4618,  4794,  4969,  5141,  5312,  5480,
       5646,  5810,  5972,  6131,  6288,  6442,  6594,  6743,  6889,  7033,
       7174,  7311,  7446,  7578,  7707,  7833,  7956,  8076,  8192,  8305,
       8415,  8521,  8624,  8724,  8820,  8912,  9001,  9086,  9168,  9246,
       9320,  9391,  9458,  9521,  9580,  9636,  9687,  9735,  9779,  9819,
       9854,  9887,  9915,  9939,  9959,  9975,  9987,  9995,  9999, 10000 >>

SinInterp(lo, hi, off) == lo + ((hi - lo) * off + SinStep \div 2) \div SinStep

\* sin on the first quadrant, 0 <= x <= HalfPi
SinQ(x) ==
    Min(Scale, SinInterp(SinTab[x \div SinStep + 1], SinTab[x \div SinStep + 2],
                         x % SinStep))

\* sin on one turn, 0 <= r < TwoPi
SinTurn(r) ==
    IF r <= HalfPi THEN SinQ(r)
    ELSE IF r <= Pi THEN SinQ(Pi - r)
    ELSE IF r <= Pi + HalfPi THEN -SinQ(r - Pi)
    ELSE -SinQ(TwoPi - r)

sin(x) == SinTurn(x % TwoPi)

cos(x) == sin(x + HalfPi)

tan(x) == FDiv(sin(x), cos(x))

AsinInterp(v, lo, hi, k) ==
    Min(HalfPi, (k - 1) * SinStep + ((v - lo) * SinStep + (hi - lo) \div 2) \div (hi - lo))

AsinAt(v, k) == AsinInterp(v, SinTab[k], SinTab[k + 1], k)

\* the inverse of SinQ on 0 <= v <= Scale
AsinQ(v) ==
    AsinAt(v, CHOOSE i \in 1..(Len(SinTab) - 1) :
                  /\ SinTab[i] <= v
                  /\ (v < SinTab[i + 1] \/ i = Len(SinTab) - 1))

\* math.asin and math.acos raise ValueError ("math domain error") outside [-1, 1]
InDomain(v) == -Scale <= v /\ v <= Scale

asin(v) == IF v >= 0 THEN AsinQ(v) ELSE -AsinQ(-v)

acos(v) == HalfPi - asin(v)

radians(d) == MulDiv(d, Pi, 180 * Scale)

degrees(r) == MulDiv(r, 180 * Scale, Pi)

(***************************************************************************)
(* Return values and exceptions                                            *)
(***************************************************************************)
Return(v) == [exc |-> "none", ret |-> v]

Raise(e) == [exc |-> e]

(***************************************************************************)
(* datetime.date: a proleptic Gregorian civil date from date.min to        *)
(* date.max, and date +/- one day                                          *)
(***************************************************************************)
Date(y, m, d) == [year |-> y, month |-> m, day |-> d]

IsLeap(y) == (y % 4 = 0 /\ y % 100 # 0) \/ y % 400 = 0

DaysInMonth(y, m) ==
    IF m = 2 THEN (IF IsLeap(y) THEN 29 ELSE 28)
    ELSE IF m \in {4, 6, 9, 11} THEN 30 ELSE 31

\* the day after date
NextDay(date) ==
    IF date.day < DaysInMonth(date.year, date.month)
    THEN Date(date.year, date.month, date.day + 1)
    ELSE IF date.month < 12 THEN Date(date.year, date.month + 1, 1)
    ELSE Date(date.year + 1, 1, 1)

\* the day before date
PrevDay(date) ==
    IF date.day > 1 THEN Date(date.year, date.month, date.day - 1)
    ELSE IF date.month > 1
         THEN Date(date.year, date.month - 1, DaysInMonth(date.year, date.month - 1))
    ELSE Date(date.year - 1, 12, 31)

\* date.min and date.max
MinDate == Date(1, 1, 1)

MaxDate == Date(9999, 12, 31)

\* date += datetime.timedelta(days=1), which raises past date.max
AddDay(date) ==
    IF date = MaxDate THEN Raise("OverflowError") ELSE Return(NextDay(date))

\* date -= datetime.timedelta(days=1), which raises before date.min
SubDay(date) ==
    IF date = MinDate THEN Raise("OverflowError") ELSE Return(PrevDay(date))

\* datetime.datetime(date.year, date.month, date.day, hour, minute, second, tzinfo=pytz.utc)
DateTime(date, hour, minute, second) ==
    [year |-> date.year, month |-> date.month, day |-> date.day,
     hour |-> hour, minute |-> minute, second |-> second]

(***************************************************************************)
(* SolarTime: the helper methods of the numerical pipeline                 *)
(***************************************************************************)

\* Lines 250-257, on the year and month as lines 246-248 leave them:
\*   A = floor(year / 100.0);  B = 2 - A + floor(A / 4.0)
\*   jd = floor(365.25 * (year + 4716)) + floor(30.6001 * (month + 1)) + day - 1524.5
\*   if jd > 2299160.4999999: jd += B
\* jd is a whole number of half days, so the test is jd >= 2299160.5.
\* Mutation of line 251: B = 2 - A, without the floor(A / 4.0) term
_julianday_B_no_quad(A) == 2 - A

_julianday_B(A) == 2 - A + A \div 4

_julianday_jd(year, month, day) ==
    DScale * ((1461 * (year + 4716)) \div 4 + (306001 * (month + 1)) \div 10000 + day)
    - (15245 * DScale) \div 10

_julianday_add(jd, B) ==
    IF jd > 2299160 * DScale + DScale \div 2 - 1 THEN jd + DScale * B ELSE jd

_julianday_ymd(year, month, day) ==
    _julianday_add(_julianday_jd(year, month, day), _julianday_B(year \div 100))

\* _julianday(date), timezone=None: the Julian day, times DScale
_julianday(date) ==
    IF date.month <= 2
    THEN _julianday_ymd(date.year - 1, date.month + 12, date.day)
    ELSE _julianday_ymd(date.year, date.month, date.day)

_jday_to_jcentury(julianday) ==
    MulDiv(julianday - 2451545 * DScale, JScale, 36525 * DScale)

_jcentury_to_jday(juliancentury) ==
    MulDiv(juliancentury, 36525 * DScale, JScale) + 2451545 * DScale

\* seconds = 21.448 - t * (46.815 + t * (0.00059 - t * 0.001813))
\* return 23.0 + (26.0 + (seconds / 60.0)) / 60.0
_mean_obliquity_of_ecliptic(juliancentury) ==
    23 * Scale
    + FDiv(26 * Scale
           + FDiv(214480 - JMul(juliancentury,
                      468150 + JMul(juliancentury, 6 - JMul(juliancentury, 18))),
                  60 * Scale),
           60 * Scale)

\* omega = 125.04 - 1934.136 * t;  return e0 + 0.00256 * cos(radians(omega))
_obliquity_correction(juliancentury) ==
    _mean_obliquity_of_ecliptic(juliancentury)
    + FMul(26, cos(radians(1250400 - JMul(juliancentury, 19341360))))

\* l0 = 280.46646 + t * (36000.76983 + 0.0003032 * t);  return l0 % 360.0
_geom_mean_long_sun(juliancentury) ==
    (2804665 + JMul(juliancentury, 360007698 + JMul(juliancentury, 3))) % (360 * Scale)

\* 0.016708634 - t * (0.000042037 + 0.0000001267 * t)
_eccentrilocation_earth_orbit(juliancentury) ==
    167 - JMul(juliancentury, 0 + JMul(juliancentury, 0))

\* 357.52911 + t * (35999.05029 - 0.0001537 * t)
_geom_mean_anomaly_sun(juliancentury) ==
    3575291 + JMul(juliancentury, 359990503 - JMul(juliancentury, 2))

\* Line 299:
\* y*sin2l0 - 2.0*e*sinm + 4.0*e*y*sinm*cos2l0 - 0.5*y*y*sin4l0 - 1.25*e*e*sin2m
_eq_of_time_Etime(y, e, sin2l0, sinm, cos2l0, sin4l0, sin2m) ==
    FMul(y, sin2l0)
    - FMul(2 * e, sinm)
    + FMul(FMul(FMul(4 * e, y), sinm), cos2l0)
    - FMul(FMul(FMul(5000, y), y), sin4l0)
    - FMul(FMul(FMul(12500, e), e), sin2m)

\* Lines 293-297, on radians(l0) and radians(m)
_eq_of_time_trig(y, e, l0rad, mrad) ==
    _eq_of_time_Etime(y, e, sin(2 * l0rad), sin(mrad), cos(2 * l0rad),
                      sin(4 * l0rad), sin(2 * mrad))

\* y = tan(radians(epsilon) / 2.0);  y = y * y;  return degrees(Etime) * 4.0
_eq_of_time(juliancentury) ==
    4 * degrees(_eq_of_time_trig(
            Square(tan(radians(_obliquity_correction(juliancentury)) \div 2)),
            _eccentrilocation_earth_orbit(juliancentury),
            radians(_geom_mean_long_sun(juliancentury)),
            radians(_geom_mean_anomaly_sun(juliancentury))))

\* Line 310:
\* sinm * (1.914602 - t * (0.004817 + 0.000014 * t))
\*   + sin2m * (0.019993 - 0.000101 * t) + sin3m * 0.000289
_sun_eq_of_center_c(juliancentury, mrad) ==
    FMul(sin(mrad), 19146 - JMul(juliancentury, 48 + JMul(juliancentury, 0)))
    + FMul(sin(mrad + mrad), 200 - JMul(juliancentury, 1))
    + FMul(sin(mrad + mrad + mrad), 3)

_sun_eq_of_center(juliancentury) ==
    _sun_eq_of_center_c(juliancentury, radians(_geom_mean_anomaly_sun(juliancentury)))

_sun_true_long(juliancentury) ==
    _geom_mean_long_sun(juliancentury) + _sun_eq_of_center(juliancentury)

\* omega = 125.04 - 1934.136 * t;  return O - 0.00569 - 0.00478 * sin(radians(omega))
_sun_apparent_long(juliancentury) ==
    _sun_true_long(juliancentury) - 57
    - FMul(48, sin(radians(1250400 - JMul(juliancentury, 19341360))))

\* sint = sin(radians(e)) * sin(radians(lambd));  return degrees(asin(sint))
_sun_declination(juliancentury) ==
    degrees(asin(FMul(sin(radians(_obliquity_correction(juliancentury))),
                      sin(radians(_sun_apparent_long(juliancentury))))))

\* acos, or the ValueError it raises outside [-1, 1]
_hour_angle_acos(arg) ==
    IF InDomain(arg) THEN [exc |-> "none", HA |-> acos(arg)]
    ELSE [exc |-> "ValueError", HA |-> 0]

\* num / den - tt, with the ZeroDivisionError of a zero divisor
_hour_angle_arg(num, den, tt) ==
    IF den = 0 THEN [exc |-> "ZeroDivisionError", HA |-> 0]
    ELSE _hour_angle_acos(FDiv(num, den) - tt)

\* Line 335:
\* acos(cos(radians(90 + solar_depression)) / (cos(latRad) * cos(sdRad))
\*      - tan(latRad) * tan(sdRad))
_hour_angle_rad(latRad, sdRad, solar_depression) ==
    _hour_angle_arg(cos(radians(90 * Scale + solar_depression)),
                    FMul(cos(latRad), cos(sdRad)),
                    FMul(tan(latRad), tan(sdRad)))

\* The hour angle in radians, or the exception the float arithmetic raises.
_hour_angle(latitude, solar_dec, solar_depression) ==
    _hour_angle_rad(radians(latitude), radians(solar_dec), solar_depression)

(***************************************************************************)
(* The tail shared by _calc_time (lines 371-397) and solar_noon_utc (lines *)
(* 172-198): timeUTC, in minutes since midnight of date, to a date and an  *)
(* hour, minute and second.  timeUTC /= 60.0 is exact here: the hours are  *)
(* timeUTC / (60 * Scale).                                                 *)
(***************************************************************************)

\* Mutation of lines 390-395: the hour is wrapped and the date is left alone
_carry_hour_no_shift(date, hour, minute, second) ==
    IF hour > 23 THEN Return(DateTime(date, hour - 24, minute, second))
    ELSE IF hour < 0 THEN Return(DateTime(date, hour + 24, minute, second))
    ELSE Return(DateTime(date, hour, minute, second))

\* Line 397 (and 198), on the date the lines before it left, or their exception
_datetime(shifted, hour, minute, second) ==
    IF shifted.exc # "none" THEN shifted
    ELSE Return(DateTime(shifted.ret, hour, minute, second))

\* if hour > 23: hour -= 24; date += timedelta(days=1)
\* elif hour < 0: hour += 24; date -= timedelta(days=1)
_carry_hour(date, hour, minute, second) ==
    IF hour > 23 THEN _datetime(AddDay(date), hour - 24, minute, second)
    ELSE IF hour < 0 THEN _datetime(SubDay(date), hour + 24, minute, second)
    ELSE _datetime(Return(date), hour, minute, second)

\* if minute > 59: minute -= 60; hour += 1
\* elif minute < 0: minute += 60; hour -= 1
_carry_minute(date, hour, minute, second) ==
    IF minute > 59 THEN _carry_hour(date, hour + 1, minute - 60, second)
    ELSE IF minute < 0 THEN _carry_hour(date, hour - 1, minute + 60, second)
    ELSE _carry_hour(date, hour, minute, second)

\* if second > 59: second -= 60; minute += 1
\* elif second < 0: second += 60; minute -= 1
_carry_second(date, hour, minute, second) ==
    IF second > 59 THEN _carry_minute(date, hour, minute + 1, second - 60)
    ELSE IF second < 0 THEN _carry_minute(date, hour, minute - 1, second + 60)
    ELSE _carry_minute(date, hour, minute, second)

\* second = int((((timeUTC - hour) * 60) - minute) * 60)
_split_second(date, hour, minute, rest) ==
    _carry_second(date, hour, minute, int((rest - minute * Scale) * 60, Scale))

\* minute = int((timeUTC - hour) * 60);  rest is (timeUTC - hour) * 60
_split_minute(date, hour, rest) ==
    _split_second(date, hour, int(rest, Scale), rest)

_split_hour(date, timeUTC, hour) ==
    _split_minute(date, hour, timeUTC - hour * 60 * Scale)

\* timeUTC /= 60.0;  hour = int(timeUTC)
_normalise(date, timeUTC) ==
    _split_hour(date, timeUTC, int(timeUTC, 60 * Scale))

(***************************************************************************)
(* SolarTime._calc_time                                                    *)
(***************************************************************************)

\* Mutation of lines 341-345: no clamp
_clamp_identity(latitude) == latitude

\* Lines 341-345: the latitude used from line 351 on
_clamp(latitude) ==
    IF latitude > 898000 THEN 898000
    ELSE IF latitude < -898000 THEN -898000
    ELSE latitude

\* delta = -longitude - degrees(hourangle);  timeDiff = 4 * delta
\* timeUTC = 720 + timeDiff - eqtime
\* where hourangle is root * HA, or the exception of _hour_angle
_pass(ha, root, longitude, eqtime) ==
    [exc     |-> ha.exc,
     timeUTC |-> 720 * Scale + 4 * (-longitude - degrees(root * ha.HA)) - eqtime]

\* Lines 348-355, at t: hourangle = -self._hour_angle(latitude, solarDec, 0.833)
_first_pass_at(t, latitude, longitude) ==
    _pass(_hour_angle(_clamp(latitude), _sun_declination(t), 8330), -1,
          longitude, _eq_of_time(t))

\* Lines 347-355: the first pass, at the Julian century of the date
_first_pass(date, latitude, longitude) ==
    _first_pass_at(_jday_to_jcentury(_julianday(date)), latitude, longitude)

\* Lines 358-369, at newt:
\*   if depression < 0: hourangle = -self._hour_angle(latitude, solarDec, abs(depression))
\*   else:              hourangle = self._hour_angle(latitude, solarDec, depression)
_second_pass_at(newt, latitude, longitude, depression) ==
    _pass(_hour_angle(_clamp(latitude), _sun_declination(newt), Abs(depression)),
          IF depression < 0 THEN -1 ELSE 1,
          longitude, _eq_of_time(newt))

\* Line 357: newt = _jday_to_jcentury(_jcentury_to_jday(t) + timeUTC / 1440.0)
_newt(t, timeUTC) ==
    _jday_to_jcentury(_jcentury_to_jday(t) + MulDiv(timeUTC, DScale, 1440 * Scale))

\* Lines 357-369: the second pass, at the Julian century of the first estimate
_second_pass(date, latitude, longitude, depression, timeUTC) ==
    _second_pass_at(_newt(_jday_to_jcentury(_julianday(date)), timeUTC),
                    latitude, longitude, depression)

\* Lines 371-397
_calc_time_end(date, p2) ==
    IF p2.exc # "none" THEN Raise(p2.exc) ELSE _normalise(date, p2.timeUTC)

\* Lines 357-397, after a first pass p1
_calc_time_refine(date, latitude, longitude, depression, p1) ==
    IF p1.exc # "none" THEN Raise(p1.exc)
    ELSE _calc_time_end(date,
             _second_pass(date, latitude, longitude, depression, p1.timeUTC))

_calc_time(date, latitude, longitude, depression) ==
    _calc_time_refine(date, latitude, longitude, depression,
                      _first_pass(date, latitude, longitude))

(***************************************************************************)
(* SolarTime: the instance and its public methods.  self is the instance,  *)
(* a record of its one attribute; a depression argument is a string or a   *)
(* number.                                                                 *)
(***************************************************************************)
Str(s) == [isstr |-> TRUE, str |-> s, num |-> 0]

Num(n) == [isstr |-> FALSE, str |-> "", num |-> n]

\* Mutation of lines 83-92: the attribute is reset to the default before the
\* lookup, so a failed assignment leaves 6 behind
solar_depression_setter_reset(self, depression) ==
    IF depression.isstr
    THEN IF depression.str = "civil"
         THEN [self |-> [self EXCEPT !._depression = 6 * Scale], exc |-> "none"]
         ELSE IF depression.str = "nautical"
         THEN [self |-> [self EXCEPT !._depression = 12 * Scale], exc |-> "none"]
         ELSE IF depression.str = "astronomical"
         THEN [self |-> [self EXCEPT !._depression = 18 * Scale], exc |-> "none"]
         ELSE [self |-> [self EXCEPT !._depression = 6 * Scale], exc |-> "KeyError"]
    ELSE [self |-> [self EXCEPT !._depression = depression.num], exc |-> "none"]

\* the solar_depression setter: the instance afterwards, and what it raised
solar_depression_setter(self, depression) ==
    IF depression.isstr
    THEN IF depression.str = "civil"
         THEN [self |-> [self EXCEPT !._depression = 6 * Scale], exc |-> "none"]
         ELSE IF depression.str = "nautical"
         THEN [self |-> [self EXCEPT !._depression = 12 * Scale], exc |-> "none"]
         ELSE IF depression.str = "astronomical"
         THEN [self |-> [self EXCEPT !._depression = 18 * Scale], exc |-> "none"]
         ELSE [self |-> self, exc |-> "KeyError"]
    ELSE [self |-> [self EXCEPT !._depression = depression.num], exc |-> "none"]

\* self._depression = 6;  self.solar_depression = solar_depression
__init__(solar_depression) ==
    solar_depression_setter([_depression |-> 6 * Scale], solar_depression)

\* try: return ... except: raise SolarError(...)
_except_SolarError(r) == IF r.exc = "none" THEN r ELSE Raise("SolarError")

dawn_utc(self, date, latitude, longitude) ==
    _except_SolarError(_calc_time(date, latitude, longitude, self._depression))

sunrise_utc(self, date, latitude, longitude) ==
    _except_SolarError(_calc_time(date, latitude, longitude, 8330))

\* Mutation of line 170: the configured depression, as minutes, moves the noon
solar_noon_utc_depressed(self, date, longitude) ==
    _normalise(date,
        720 * Scale + (-longitude * 4) + self._depression
        - _eq_of_time(_jday_to_jcentury(_julianday(date) + DScale \div 2
                                        + MulDiv(-longitude, DScale, 360 * Scale))))

\* Lines 165-170:
\*   newt = _jday_to_jcentury(julianday + 0.5 + -longitude / 360.0)
\*   timeUTC = 720.0 + (-longitude * 4.0) - eqtime
solar_noon_utc(self, date, longitude) ==
    _normalise(date,
        720 * Scale + (-longitude * 4)
        - _eq_of_time(_jday_to_jcentury(_julianday(date) + DScale \div 2
                                        + MulDiv(-longitude, DScale, 360 * Scale))))

sunset_utc(self, date, latitude, longitude) ==
    _except_SolarError(_calc_time(date, latitude, longitude, -8330))

dusk_utc(self, date, latitude, longitude) ==
    _except_SolarError(_calc_time(date, latitude, longitude, -self._depression))

\* Mutation of lines 108-114: a failing entry is left out of the schedule
_sun_utc_dict_partial(dawn, sunrise, noon, sunset, dusk) ==
    IF dawn.exc = "none" /\ sunrise.exc = "none" /\ sunset.exc = "none" /\ dusk.exc = "none"
    THEN Return([dawn |-> dawn.ret, sunrise |-> sunrise.ret, noon |-> noon.ret,
                 sunset |-> sunset.ret, dusk |-> dusk.ret])
    ELSE Return([noon |-> noon.ret])

\* The dictionary display evaluates its values in order; the first exception ends it.
_sun_utc_dict(dawn, sunrise, noon, sunset, dusk) ==
    IF dawn.exc # "none" THEN dawn
    ELSE IF sunrise.exc # "none" THEN sunrise
    ELSE IF noon.exc # "none" THEN noon
    ELSE IF sunset.exc # "none" THEN sunset
    ELSE IF dusk.exc # "none" THEN dusk
    ELSE Return([dawn |-> dawn.ret, sunrise |-> sunrise.ret, noon |-> noon.ret,
                 sunset |-> sunset.ret, dusk |-> dusk.ret])

sun_utc(self, date, latitude, longitude) ==
    _sun_utc_dict(dawn_utc(self, date, latitude, longitude),
                  sunrise_utc(self, date, latitude, longitude),
                  solar_noon_utc(self, date, longitude),
                  sunset_utc(self, date, latitude, longitude),
                  dusk_utc(self, date, latitude, longitude))

\* The four operations that go through _calc_time
HorizonOps == {"dawn_utc", "sunrise_utc", "sunset_utc", "dusk_utc"}

QueryOps == HorizonOps \cup {"solar_noon_utc", "sun_utc"}

\* The depression argument the operation hands to _calc_time (lines 128, 146, 212, 230)
OpDepression(op, self) ==
    CASE op = "dawn_utc"    -> self._depression
      [] op = "sunrise_utc" -> 8330
      [] op = "sunset_utc"  -> -8330
      [] op = "dusk_utc"    -> -self._depression

\* The outcome of the query named op
Query(op, self, date, latitude, longitude) ==
    CASE op = "dawn_utc"       -> dawn_utc(self, date, latitude, longitude)
      [] op = "sunrise_utc"    -> sunrise_utc(self, date, latitude, longitude)
      [] op = "solar_noon_utc" -> solar_noon_utc(self, date, longitude)
      [] op = "sunset_utc"     -> sunset_utc(self, date, latitude, longitude)
      [] op = "dusk_utc"       -> dusk_utc(self, date, latitude, longitude)
      [] op = "sun_utc"        -> sun_utc(self, date, latitude, longitude)

(***************************************************************************)
(* The state: one SolarTime instance, the day and place its caller asks    *)
(* about, and the last call made on it with what the call returned or      *)
(* raised.                                                                 *)
(***************************************************************************)
VARIABLES
    pc,         \* "init": inside __init__, before line 61; "ready": constructed;
                \* "raised": __init__ raised and there is no instance
    self,       \* the instance: [_depression |-> degrees * Scale]
    date,       \* the date argument of the queries
    latitude,   \* the latitude argument, degrees * Scale
    longitude,  \* the longitude argument, degrees * Scale
    call,       \* the last call: [op |-> method name, arg |-> its depression argument]
    outcome     \* Return(value) or Raise(exception) of the last call

vars == <<pc, self, date, latitude, longitude, call, outcome>>

NoArg == Num(0)

NumDates == 3

NumLatitudes == 4

NumLongitudes == 2

NumNames == 4

NumNumbers == 2

DateList ==
    << Date(2015, 1, 20), Date(2015, 12, 21), Date(2015, 9, 25),
       Date(2015, 6, 21), Date(2016, 2, 29) >>

\* 38.0, 68.0, 95.0, -95.0, 89.8, -89.8
LatitudeList == << 380000, 680000, 950000, -950000, 898000, -898000 >>

\* -79.0, 179.0, -179.0, 0.0
LongitudeList == << -790000, 1790000, -1790000, 0 >>

NameList == << "civil", "nautical", "astronomical", "twilight", "", "Civil" >>

\* -6.0, 0.0, 0.833, 90.0
NumberList == << -60000, 0, 8330, 900000 >>

Dates == { DateList[i] : i \in 1..NumDates }

Latitudes == { LatitudeList[i] : i \in 1..NumLatitudes }

Longitudes == { LongitudeList[i] : i \in 1..NumLongitudes }

DepressionArgs ==
    { Str(NameList[i]) : i \in 1..NumNames } \cup { Num(NumberList[i]) : i \in 1..NumNumbers }

Init ==
    /\ pc = "init"
    /\ self = [_depression |-> 6 * Scale]
    /\ date \in Dates
    /\ latitude \in Latitudes
    /\ longitude \in Longitudes
    /\ call = [op |-> "none", arg |-> NoArg]
    /\ outcome = Return("None")

\* an assignment returns nothing, or raises
SetterOutcome(r) == IF r.exc = "none" THEN Return("None") ELSE Raise(r.exc)

\* __init__, line 61: self.solar_depression = solar_depression
Construct(solar_depression) ==
    /\ pc = "init"
    /\ self' = __init__(solar_depression).self
    /\ pc' = IF __init__(solar_depression).exc = "none" THEN "ready" ELSE "raised"
    /\ outcome' = SetterOutcome(__init__(solar_depression))
    /\ call' = [op |-> "__init__", arg |-> solar_depression]
    /\ UNCHANGED <<date, latitude, longitude>>

\* sun.solar_depression = depression
SetSolarDepression(depression) ==
    /\ pc = "ready"
    /\ self' = solar_depression_setter(self, depression).self
    /\ outcome' = SetterOutcome(solar_depression_setter(self, depression))
    /\ call' = [op |-> "solar_depression", arg |-> depression]
    /\ UNCHANGED <<pc, date, latitude, longitude>>

DawnUtc ==
    /\ pc = "ready"
    /\ outcome' = dawn_utc(self, date, latitude, longitude)
    /\ call' = [op |-> "dawn_utc", arg |-> NoArg]
    /\ UNCHANGED <<pc, self, date, latitude, longitude>>

SunriseUtc ==
    /\ pc = "ready"
    /\ outcome' = sunrise_utc(self, date, latitude, longitude)
    /\ call' = [op |-> "sunrise_utc", arg |-> NoArg]
    /\ UNCHANGED <<pc, self, date, latitude, longitude>>

SolarNoonUtc ==
    /\ pc = "ready"
    /\ outcome' = solar_noon_utc(self, date, longitude)
    /\ call' = [op |-> "solar_noon_utc", arg |-> NoArg]
    /\ UNCHANGED <<pc, self, date, latitude, longitude>>

SunsetUtc ==
    /\ pc = "ready"
    /\ outcome' = sunset_utc(self, date, latitude, longitude)
    /\ call' = [op |-> "sunset_utc", arg |-> NoArg]
    /\ UNCHANGED <<pc, self, date, latitude, longitude>>

\* Mutation of line 232: the negated depression is stored on the instance
DuskUtc_negate ==
    /\ pc = "ready"
    /\ outcome' = dusk_utc(self, date, latitude, longitude)
    /\ self' = [self EXCEPT !._depression = -self._depression]
    /\ call' = [op |-> "dusk_utc", arg |-> NoArg]
    /\ UNCHANGED <<pc, date, latitude, longitude>>

DuskUtc ==
    /\ pc = "ready"
    /\ outcome' = dusk_utc(self, date, latitude, longitude)
    /\ call' = [op |-> "dusk_utc", arg |-> NoArg]
    /\ UNCHANGED <<pc, self, date, latitude, longitude>>

SunUtc ==
    /\ pc = "ready"
    /\ outcome' = sun_utc(self, date, latitude, longitude)
    /\ call' = [op |-> "sun_utc", arg |-> NoArg]
    /\ UNCHANGED <<pc, self, date, latitude, longitude>>

Next ==
    \/ \E a \in DepressionArgs : Construct(a)
    \/ \E a \in DepressionArgs : SetSolarDepression(a)
    \/ DawnUtc
    \/ SunriseUtc
    \/ SolarNoonUtc
    \/ SunsetUtc
    \/ DuskUtc
    \/ SunUtc

Spec == Init /\ [][Next]_vars

(***************************************************************************)
(* _normalise on its own: one instance, a date, and the normalisation      *)
(* applied to a time of day strictly between -24 h and +48 h.              *)
(***************************************************************************)
NumNormDates == 4

TimeStep == 41

TimeSpan == 12

\* year end, the day after a leap day, date.max, date.min, month end
NormDateList ==
    << Date(2015, 12, 31), Date(2016, 3, 1), MaxDate, MinDate,
       Date(2016, 1, 31), Date(2015, 1, 1), Date(2016, 2, 28) >>

NormDates == { NormDateList[i] : i \in 1..NumNormDates }

\* minutes * Scale: -24 h, -1 h, -1 min, 0, 1 min, 1 h, 12 h, 24 h, 25 h, 48 h
TimeAnchors ==
    { -1440 * Scale, -60 * Scale, -Scale, 0, Scale, 60 * Scale, 720 * Scale,
      1440 * Scale, 1500 * Scale, 2880 * Scale }

Times ==
    { T \in { a + k * TimeStep : a \in TimeAnchors, k \in (-TimeSpan)..TimeSpan } :
        -1440 * Scale < T /\ T < 2880 * Scale }

InitNorm ==
    /\ pc = "ready"
    /\ self = [_depression |-> 6 * Scale]
    /\ date \in NormDates
    /\ latitude = 0
    /\ longitude = 0
    /\ call = [op |-> "none", arg |-> NoArg]
    /\ outcome = Return("None")

\* lines 371-397 and 172-198, on a time of day timeUTC
Normalise(timeUTC) ==
    /\ pc = "ready"
    /\ outcome' = _normalise(date, timeUTC)
    /\ call' = [op |-> "_normalise", arg |-> Num(timeUTC)]
    /\ UNCHANGED <<pc, self, date, latitude, longitude>>

NextNorm == \E timeUTC \in Times : Normalise(timeUTC)

SpecNorm == InitNorm /\ [][NextNorm]_vars

(***************************************************************************)
(* _julianday on its own: every day of a few years                         *)
(***************************************************************************)
NumYears == 5

JulianYearList == << 1582, 1600, 1900, 2000, 2016, 1500, 1583, 2100, 1000 >>

JulianDates ==
    { Date(JulianYearList[i], m, d) : i \in 1..NumYears, m \in 1..12, d \in 1..31 }

InitJulian ==
    /\ pc = "ready"
    /\ self = [_depression |-> 6 * Scale]
    /\ date \in { d \in JulianDates : d.day <= DaysInMonth(d.year, d.month) }
    /\ latitude = 0
    /\ longitude = 0
    /\ call = [op |-> "none", arg |-> NoArg]
    /\ outcome = Return("None")

\* self._julianday(date)
JulianDay ==
    /\ pc = "ready"
    /\ outcome' = Return(_julianday(date))
    /\ call' = [op |-> "_julianday", arg |-> NoArg]
    /\ UNCHANGED <<pc, self, date, latitude, longitude>>

NextJulian == JulianDay

SpecJulian == InitJulian /\ [][NextJulian]_vars

(***************************************************************************)
(* Properties                                                              *)
(***************************************************************************)

\* The Julian century of midnight UT, k days after the date
CenturyOfDay(d, k) == _jday_to_jcentury(_julianday(d) + k * DScale)

\* The hour-angle equation for depression dep has a real solution at century t
Solvable(t, lat, dep) ==
    _hour_angle(_clamp(lat), _sun_declination(t), dep).exc = "none"

\* The depression the operation is documented to use
OwnDepression(op) == IF op \in {"dawn_utc", "dusk_utc"} THEN self._depression ELSE 8330

\* The days over which a returned time of day can range
DayWindow == (-1)..2

\* C1: each of dawn_utc, sunrise_utc, sunset_utc and dusk_utc raises
\* SolarError if and only if the hour-angle equation of its own depression
\* (the configured one for dawn and dusk, 0.833 for sunrise and sunset) has
\* no real solution on the date at the latitude: it returns an instant when
\* the equation is solvable all through the date, SolarError when it is
\* solvable at no time of the date.
C1_SolarErrorIffOwnEquationUnsolvable ==
    (pc = "ready" /\ call.op \in HorizonOps) =>
        /\ (\A k \in DayWindow :
                Solvable(CenturyOfDay(date, k), latitude, OwnDepression(call.op)))
           => outcome.exc = "none"
        /\ (\A k \in DayWindow :
                ~Solvable(CenturyOfDay(date, k), latitude, OwnDepression(call.op)))
           => outcome = Raise("SolarError")

\* Seconds from 2000-01-00 00:00:00 on a calendar of 31-day months: an order
\* on instants
SecondsKey(dt) ==
    (((dt.year - 2000) * 12 + dt.month) * 31 + dt.day) * 86400
    + dt.hour * 3600 + dt.minute * 60 + dt.second

\* C2: whatever depression is stored (positive, zero or negative), the dawn
\* of a schedule is never later than its dusk.
C2_DawnNotAfterDusk ==
    (call.op = "sun_utc" /\ outcome.exc = "none") =>
        SecondsKey(outcome.ret.dawn) <= SecondsKey(outcome.ret.dusk)

Assignments == {"__init__", "solar_depression"}

KnownNames == {"civil", "nautical", "astronomical"}

\* After an assignment of a string: a known name returned and stored its
\* angle, any other string raised.
C3_Stored ==
    (call.op \in Assignments /\ call.arg.isstr) =>
        /\ call.arg.str = "civil" =>
               outcome = Return("None") /\ self._depression = 6 * Scale
        /\ call.arg.str = "nautical" =>
               outcome = Return("None") /\ self._depression = 12 * Scale
        /\ call.arg.str = "astronomical" =>
               outcome = Return("None") /\ self._depression = 18 * Scale
        /\ call.arg.str \notin KnownNames => outcome.exc # "none"

\* An assignment that raises leaves the stored depression as it was.
C3_FailureKeeps ==
    (call'.op \in Assignments /\ outcome'.exc # "none") => self' = self

\* C3: assigning solar_depression 'civil', 'nautical' or 'astronomical', at
\* construction or later, stores 6, 12 or 18; assigning any other string
\* raises, and the stored depression is then what it was before.
C3_NamesStoredFailureKeeps == [] C3_Stored /\ [][C3_FailureKeeps]_vars

\* A later assignment of an unknown string raised, after 'nautical' was stored
C3_Witness ==
    /\ call.op = "solar_depression"
    /\ call.arg.isstr
    /\ outcome.exc = "KeyError"
    /\ self._depression = 12 * Scale

DateOf(dt) == Date(dt.year, dt.month, dt.day)

\* Seconds from midnight of day d to the instant dt, which lies on d or on a
\* day next to it
SecondsFrom(d, dt) ==
    dt.hour * 3600 + dt.minute * 60 + dt.second
    + (IF DateOf(dt) = NextDay(d) THEN 86400
       ELSE IF DateOf(dt) = PrevDay(d) THEN -86400
       ELSE 0)

InRange(dt) == dt.hour \in 0..23 /\ dt.minute \in 0..59 /\ dt.second \in 0..59

\* The time of day in whole seconds, the fraction of a second dropped
WholeSeconds(T) == int(T * 60, Scale)

\* The date is date.max and is to go forward, or date.min and is to go back
Unrepresentable(d, shift) ==
    (shift = 1 /\ d = MaxDate) \/ (shift = -1 /\ d = MinDate)

Shifted(d, shift) ==
    IF shift = 1 THEN NextDay(d) ELSE IF shift = -1 THEN PrevDay(d) ELSE d

\* The instant dt is midnight of day d moved by shift days, plus the whole
\* seconds of T, with hour, minute and second in range
NormalisedTo(dt, d, shift, T) ==
    /\ InRange(dt)
    /\ DateOf(dt) = Shifted(d, shift)
    /\ SecondsFrom(d, dt) = WholeSeconds(T)

\* The shift C4 states: back one day whenever T is before 0 h
ShiftOnSign(T) == IF T >= 1440 * Scale THEN 1 ELSE IF T < 0 THEN -1 ELSE 0

\* The shift of the code: back one day when T is at or before -1 s
ShiftOnWholeSeconds(T) ==
    IF T >= 1440 * Scale THEN 1 ELSE IF WholeSeconds(T) < 0 THEN -1 ELSE 0

C5_ClampedLatitude ==
    (pc = "ready" /\ call.op \in HorizonOps) =>
        /\ latitude > 898000 =>
               outcome = Query(call.op, self, date, 898000, longitude)
        /\ latitude < -898000 =>
               outcome = Query(call.op, self, date, -898000, longitude)

\* A call with a latitude above 89.8 returned an instant
C5_Witness ==
    /\ call.op \in HorizonOps
    /\ latitude > 898000
    /\ outcome.exc = "none"

\* The depressions an instance can hold here
Depressions ==
    { 6 * Scale, 12 * Scale, 18 * Scale } \cup { NumberList[i] : i \in 1..NumNumbers }

\* C6: solar_noon_utc returns the same instant whatever depression is
\* configured, and the noon of every schedule sun_utc returns, at any
\* latitude, is that instant.
C6_NoonIndependent ==
    /\ (pc = "ready" /\ call.op = "solar_noon_utc") =>
           \A d \in Depressions :
               solar_noon_utc([_depression |-> d], date, longitude) = outcome
    /\ (pc = "ready" /\ call.op = "sun_utc" /\ outcome.exc = "none") =>
           /\ Return(outcome.ret.noon) = solar_noon_utc(self, date, longitude)
           /\ \A lat \in Latitudes :
                  sun_utc(self, date, lat, longitude).exc = "none" =>
                      sun_utc(self, date, lat, longitude).ret.noon = outcome.ret.noon

\* A schedule was returned under a depression other than the default, on a
\* day and meridian where another latitude has a schedule too
C6_Witness ==
    /\ call.op = "sun_utc"
    /\ outcome.exc = "none"
    /\ self._depression # 6 * Scale
    /\ \E lat \in Latitudes :
           lat # latitude /\ sun_utc(self, date, lat, longitude).exc = "none"

ScheduleKeys == {"dawn", "sunrise", "noon", "sunset", "dusk"}

C8_Frame == call'.op \in QueryOps => (self' = self /\ pc' = pc)

\* The outcome of the last query is what the same query gives on the
\* instance as it is now.
C8_Repeat ==
    (pc = "ready" /\ call.op \in QueryOps) =>
        outcome = Query(call.op, self, date, latitude, longitude)

\* C8: no query, whether it returns or raises, changes the stored depression
\* or any other state of the instance; after any sequence of queries,
\* repeating a query with the same inputs gives the same outcome.
C8_QueriesKeepState == [] C8_Repeat /\ [][C8_Frame]_vars

\* A query raised on an instance holding the astronomical depression
C8_Witness ==
    /\ call.op = "dusk_utc"
    /\ outcome.exc = "SolarError"
    /\ self._depression = 18 * Scale

\* C9: the first-pass time of day of _calc_time is the estimate made at the
\* Julian century of the date with the root and the depression of the second
\* pass of the same call.
C9_FirstPassUsesOwnRoot ==
    (pc = "ready" /\ call.op \in HorizonOps) =>
        _first_pass(date, latitude, longitude) =
            _second_pass_at(CenturyOfDay(date, 0), latitude, longitude,
                            OpDepression(call.op, self))

\* year, month, day as one number, for comparing dates
Ordinal(d) == d.year * 10000 + d.month * 100 + d.day

\* C10 as stated: from every date to the next the Julian day grows by one.
C10_ContinuousEverywhere ==
    call.op = "_julianday" =>
        /\ _julianday(NextDay(date)) = outcome.ret + DScale
        /\ date = Date(2000, 1, 1) => outcome.ret = 2451544 * DScale + DScale \div 2

\* C10: from every date on or after 1582-10-05 to the next, the Julian day
\* grows by one, across month ends, year ends, leap days and century years;
\* _julianday(2000-01-01) = 2451544.5.
C10_ContinuousFromThreshold ==
    call.op = "_julianday" =>
        /\ Ordinal(date) >= 15821005 =>
               _julianday(NextDay(date)) = outcome.ret + DScale
        /\ date = Date(2000, 1, 1) => outcome.ret = 2451544 * DScale + DScale \div 2

\* The leap day of a century year, counted one less than the day after it
C10_Witness ==
    /\ call.op = "_julianday"
    /\ date = Date(2000, 2, 29)
    /\ _julianday(NextDay(date)) = outcome.ret + DScale

=============================================================================
